---- MODULE Spec2Model ----
(***************************************************************************)
(* Model of src/main.py: the SSE client (SSEClient), the global playback   *)
(* state (music_data) and the update signal it publishes snapshots on.     *)
(*                                                                         *)
(* Python strings are sequences of one-character strings, so that strip,   *)
(* startswith, slicing, join and split are computed as the code computes   *)
(* them.  Python values held in music_data are tagged records, see Str,    *)
(* Dict, Num and NaN.                                                      *)
(***************************************************************************)
EXTENDS Integers, Sequences, FiniteSets, TLC

(***************************************************************************)
(* Bounds of the model.                                                    *)
(***************************************************************************)
\* lines the connection delivers on the data path
MaxReads == 8
\* lines the connections deliver in total in the life cycle, over all
\* connection attempts
MaxLifeReads == 6
\* invocations of SSEClient.start (the first one and the timer's retries)
MaxStarts == 2

(***************************************************************************)
(* Python values.                                                          *)
(***************************************************************************)
\* a str
Str(s) == [t |-> "str", s |-> s, n |-> 0]
\* a dict with k members (what json.loads returns for an object)
Dict(k) == [t |-> "dict", s |-> <<>>, n |-> k]
\* an int or a finite float (0 == 0.0 in Python: one value stands for both)
Num(v) == [t |-> "num", s |-> <<>>, n |-> v]
\* float('nan')
NaN == [t |-> "nan", s |-> <<>>, n |-> 0]

\* bool(v), as `if data` evaluates it
Truthy(v) ==
    CASE v.t = "str" -> v.s # <<>>
      [] v.t = "dict" -> v.n > 0
      [] v.t = "num" -> v.n # 0
      [] OTHER -> TRUE

(***************************************************************************)
(* str methods.                                                            *)
(***************************************************************************)
IsSpace(c) == c \in {" ", "\t", "\r"}

RECURSIVE LStrip(_)
LStrip(s) == IF s # <<>> /\ IsSpace(Head(s)) THEN LStrip(Tail(s)) ELSE s

RECURSIVE RStrip(_)
RStrip(s) ==
    IF s # <<>> /\ IsSpace(s[Len(s)]) THEN RStrip(SubSeq(s, 1, Len(s) - 1)) ELSE s

\* s.strip()
Strip(s) == RStrip(LStrip(s))

\* s.startswith(p)
StartsWith(s, p) == Len(s) >= Len(p) /\ SubSeq(s, 1, Len(p)) = p

\* s[k:]
From(s, k) == SubSeq(s, k + 1, Len(s))

\* '\n'.join(lines)
RECURSIVE Join(_)
Join(lines) ==
    IF lines = <<>> THEN <<>>
    ELSE IF Len(lines) = 1 THEN lines[1]
    ELSE lines[1] \o <<"\n">> \o Join(Tail(lines))

\* s.split('\n'): never empty, ''.split('\n') is ['']
RECURSIVE Split(_)
Split(s) ==
    IF \A i \in 1..Len(s) : s[i] # "\n" THEN <<s>>
    ELSE LET k == CHOOSE i \in 1..Len(s) :
                      s[i] = "\n" /\ \A j \in 1..(i - 1) : s[j] # "\n"
         IN <<SubSeq(s, 1, k - 1)>> \o Split(From(s, k))

(***************************************************************************)
(* json.loads and float, on the payloads the model's streams carry: JSON   *)
(* string literals without escapes, the empty object, objects of one       *)
(* integer member, integer literals and nan.  Any other text that starts   *)
(* with a quote or a brace is malformed JSON in the model's alphabet.      *)
(***************************************************************************)
Quote == "\""

Digits == <<"0", "1", "2", "3", "4", "5", "6", "7", "8", "9">>

IsDigit(c) == \E i \in 1..10 : Digits[i] = c

DigitVal(c) == (CHOOSE i \in 1..10 : Digits[i] = c) - 1

RECURSIVE NatVal(_)
NatVal(s) ==
    IF s = <<>> THEN 0 ELSE 10 * NatVal(SubSeq(s, 1, Len(s) - 1)) + DigitVal(s[Len(s)])

IsDigits(s) == s # <<>> /\ \A i \in 1..Len(s) : IsDigit(s[i])

\* a JSON number without fraction or exponent: -?(0|[1-9][0-9]*)
IsJsonInt(s) ==
    LET u == IF s # <<>> /\ Head(s) = "-" THEN Tail(s) ELSE s
    IN IsDigits(u) /\ (Len(u) = 1 \/ Head(u) # "0")

\* the text of a JSON string literal without escapes: "..." 
IsJsonString(s) ==
    /\ Len(s) >= 2
    /\ s[1] = Quote
    /\ s[Len(s)] = Quote
    /\ \A i \in 2..(Len(s) - 1) : s[i] \notin {Quote, "\\", "\n", "\t", "\r"}

\* the text of a JSON object of one member with an integer value: {"k":1}
IsJsonMember(s) ==
    \E k \in 2..Len(s) :
        /\ IsJsonString(SubSeq(s, 1, k))
        /\ k + 1 <= Len(s)
        /\ s[k + 1] = ":"
        /\ IsJsonInt(Strip(From(s, k + 1)))

\* sys.int_max_str_digits, the longest integer literal int() converts
INT_MAX_STR_DIGITS == 4300

\* the digits of the integer of a member {"k":1}
MemberDigits(s) ==
    LET k == CHOOSE k \in 2..Len(s) : IsJsonString(SubSeq(s, 1, k))
        v == Strip(From(s, k + 1))
    IN IF v # <<>> /\ Head(v) = "-" THEN Tail(v) ELSE v

\* json.loads(s): ok is FALSE where it raises, and exc names what it raises:
\* json.JSONDecodeError for a malformed text, ValueError for an integer
\* literal of more than INT_MAX_STR_DIGITS digits
JsonLoads(s) ==
    IF IsJsonString(s)
    THEN [ok |-> TRUE, v |-> Str(SubSeq(s, 2, Len(s) - 1)), exc |-> ""]
    ELSE IF Len(s) >= 2 /\ s[1] = "{" /\ s[Len(s)] = "}"
    THEN LET inner == Strip(SubSeq(s, 2, Len(s) - 1))
         IN IF inner = <<>> THEN [ok |-> TRUE, v |-> Dict(0), exc |-> ""]
            ELSE IF ~IsJsonMember(inner)
            THEN [ok |-> FALSE, v |-> Str(s), exc |-> "JSONDecodeError"]
            ELSE IF Len(MemberDigits(inner)) > INT_MAX_STR_DIGITS
            THEN [ok |-> FALSE, v |-> Str(s), exc |-> "ValueError"]
            ELSE [ok |-> TRUE, v |-> Dict(1), exc |-> ""]
    ELSE [ok |-> FALSE, v |-> Str(s), exc |-> "JSONDecodeError"]

\* float(v): exc names the exception raised, "" when none is
PyFloat(v) ==
    IF v.t = "dict" THEN [exc |-> "TypeError", v |-> v]
    ELSE IF v.t # "str" THEN [exc |-> "", v |-> v]
    ELSE LET t == Strip(v.s)
             neg == t # <<>> /\ Head(t) = "-"
             u == IF t # <<>> /\ Head(t) \in {"-", "+"} THEN Tail(t) ELSE t
         IN IF IsDigits(u)
            THEN [exc |-> "", v |-> Num(IF neg THEN 0 - NatVal(u) ELSE NatVal(u))]
            ELSE IF u \in {<<"n", "a", "n">>, <<"N", "a", "N">>, <<"N", "A", "N">>}
            THEN [exc |-> "", v |-> NaN]
            ELSE [exc |-> "ValueError", v |-> v]

\* a > b on floats: every comparison with nan is False
PyGt(a, b) == a.t = "num" /\ b.t = "num" /\ a.n > b.n

\* max(a, b): the first argument unless a later one is greater
PyMax(a, b) == IF PyGt(b, a) THEN b ELSE a

(***************************************************************************)
(* Program constants.                                                      *)
(***************************************************************************)
EVENT_PREFIX == <<"e", "v", "e", "n", "t", ":">>
DATA_PREFIX == <<"d", "a", "t", "a", ":">>

T_LYRIC == <<"l", "y", "r", "i", "c", "L", "i", "n", "e", "A", "l", "l", "T", "e", "x", "t">>
T_NAME == <<"n", "a", "m", "e">>
T_SINGER == <<"s", "i", "n", "g", "e", "r">>
T_PICURL == <<"p", "i", "c", "U", "r", "l">>
T_DURATION == <<"d", "u", "r", "a", "t", "i", "o", "n">>
T_PROGRESS == <<"p", "r", "o", "g", "r", "e", "s", "s">>

\* the sentinel texts of the cleared snapshot, as opaque one-symbol strings
DEFAULT_LYRIC == Str(<<"DEFAULT_LYRIC">>)
DEFAULT_TITLE == Str(<<"DEFAULT_TITLE">>)
DEFAULT_ARTIST == Str(<<"DEFAULT_ARTIST">>)

Fields == {"lyrics_text", "song_name", "artist", "cover_url", "duration", "progress"}

\* MusicData.__init__
MusicDataInit ==
    [lyrics_text |-> Str(<<>>), song_name |-> Str(<<>>), artist |-> Str(<<>>),
     cover_url |-> Str(<<>>), duration |-> Num(0), progress |-> Num(0)]

(***************************************************************************)
(* SSEClient._parse_event_data                                             *)
(***************************************************************************)
\* the try block of the data: branch
DecodeData(raw) ==
    IF StartsWith(raw, <<Quote>>) \/ StartsWith(raw, <<"{">>)
    THEN LET r == JsonLoads(raw)
         IN IF r.ok THEN [data |-> r.v, exc |-> ""]
            ELSE IF r.exc = "JSONDecodeError" THEN [data |-> Str(raw), exc |-> ""]
            ELSE [data |-> Str(raw), exc |-> r.exc]
    ELSE [data |-> Str(raw), exc |-> ""]

\* ParseLine with a line of no known prefix taken as the payload
ParseLineBareData(acc, rawline) ==
    LET line == Strip(rawline)
    IN IF StartsWith(line, EVENT_PREFIX)
       THEN [acc EXCEPT !.event_type = Strip(From(line, 6))]
       ELSE IF StartsWith(line, DATA_PREFIX)
       THEN [acc EXCEPT !.data = DecodeData(Strip(From(line, 5))).data,
                        !.exc = DecodeData(Strip(From(line, 5))).exc]
       ELSE [acc EXCEPT !.data = Str(line)]

\* ParseLine with the remainders of the two lines taken as they are
ParseLineUntrimmed(acc, rawline) ==
    LET line == Strip(rawline)
    IN IF StartsWith(line, EVENT_PREFIX)
       THEN [acc EXCEPT !.event_type = From(line, 6)]
       ELSE IF StartsWith(line, DATA_PREFIX)
       THEN [acc EXCEPT !.data = DecodeData(From(line, 5)).data,
                        !.exc = DecodeData(From(line, 5)).exc]
       ELSE acc

\* one iteration of the loop over the block's lines
ParseLine(acc, rawline) ==
    LET line == Strip(rawline)
    IN IF StartsWith(line, EVENT_PREFIX)
       THEN [acc EXCEPT !.event_type = Strip(From(line, 6))]
       ELSE IF StartsWith(line, DATA_PREFIX)
       THEN [acc EXCEPT !.data = DecodeData(Strip(From(line, 5))).data,
                        !.exc = DecodeData(Strip(From(line, 5))).exc]
       ELSE acc

RECURSIVE ParseLines(_, _)
ParseLines(acc, lines) ==
    IF lines = <<>> \/ acc.exc # "" THEN acc
    ELSE ParseLines(ParseLine(acc, Head(lines)), Tail(lines))

\* _parse_event_data(event_data): the pair (event_type, data), and in exc the
\* exception that leaves the call ("" when it returns)
ParseEventData(event_data) ==
    ParseLines([event_type |-> <<>>, data |-> Str(<<>>), exc |-> ""], Split(event_data))

(***************************************************************************)
(* SSEClient._update_music_data                                            *)
(***************************************************************************)
\* CoerceSeconds with a failure to parse coerced to 0.0
CoerceSecondsZeroOnFailure(data) ==
    IF Truthy(data)
    THEN LET f == PyFloat(data)
         IN IF f.exc = "" THEN [exc |-> "", v |-> PyMax(f.v, Num(0))]
            ELSE [exc |-> "", v |-> Num(0)]
    ELSE [exc |-> "", v |-> Num(0)]

\* max(float(data), 0.0) if data else 0.0
CoerceSeconds(data) ==
    IF Truthy(data)
    THEN LET f == PyFloat(data)
         IN IF f.exc = "" THEN [exc |-> "", v |-> PyMax(f.v, Num(0))] ELSE f
    ELSE [exc |-> "", v |-> Num(0)]

\* the field an event type is stored in, "" for a type that is not mapped
FieldOf(event_type) ==
    CASE event_type = T_LYRIC -> "lyrics_text"
      [] event_type = T_NAME -> "song_name"
      [] event_type = T_SINGER -> "artist"
      [] event_type = T_PICURL -> "cover_url"
      [] event_type = T_DURATION -> "duration"
      [] event_type = T_PROGRESS -> "progress"
      [] OTHER -> ""

\* ApplyEvent with the store replaced wholesale by the event's one field
ApplyEventWholesale(md, event_type, data) ==
    LET f == FieldOf(event_type)
    IN IF f = "" THEN [md |-> md, exc |-> ""]
       ELSE IF f \in {"duration", "progress"}
       THEN LET c == CoerceSeconds(data)
            IN IF c.exc = "" THEN [md |-> [MusicDataInit EXCEPT ![f] = c.v], exc |-> ""]
               ELSE [md |-> md, exc |-> c.exc]
       ELSE [md |-> [MusicDataInit EXCEPT ![f] = data], exc |-> ""]

\* the if/elif chain: the store after it and the exception it raised
ApplyEvent(md, event_type, data) ==
    LET f == FieldOf(event_type)
    IN IF f = "" THEN [md |-> md, exc |-> ""]
       ELSE IF f \in {"duration", "progress"}
       THEN LET c == CoerceSeconds(data)
            IN IF c.exc = "" THEN [md |-> [md EXCEPT ![f] = c.v], exc |-> ""]
               ELSE [md |-> md, exc |-> c.exc]
       ELSE [md |-> [md EXCEPT ![f] = data], exc |-> ""]

\* SnapshotOf with title and artist taken from each other's field
SnapshotOfSwapped(md) ==
    [lyrics |-> md.lyrics_text, title |-> md.artist, artist |-> md.song_name,
     cover_url |-> md.cover_url, duration |-> md.duration, progress |-> md.progress]

\* the dict the signal is emitted with
SnapshotOf(md) ==
    [lyrics |-> md.lyrics_text, title |-> md.song_name, artist |-> md.artist,
     cover_url |-> md.cover_url, duration |-> md.duration, progress |-> md.progress]

\* UpdateMusicData emitting only when the event changed the store
UpdateMusicDataOnChange(md, event_type, data) ==
    LET a == ApplyEvent(md, event_type, data)
    IN [md |-> a.md,
        emit |-> a.exc = "" /\ a.md # md,
        exc |-> IF a.exc = "ValueError" THEN "" ELSE a.exc]

\* _update_music_data(event_type, data): the store after the call, whether the
\* snapshot was emitted, and the exception that leaves the call ("" when none:
\* ValueError is caught and logged inside)
UpdateMusicData(md, event_type, data) ==
    LET a == ApplyEvent(md, event_type, data)
    IN [md |-> a.md,
        emit |-> a.exc = "",
        exc |-> IF a.exc = "ValueError" THEN "" ELSE a.exc]

\* the dict the error handler of start emits
ClearedSnapshot ==
    [lyrics |-> DEFAULT_LYRIC, title |-> DEFAULT_TITLE, artist |-> DEFAULT_ARTIST,
     cover_url |-> Str(<<>>), duration |-> Num(0), progress |-> Num(0)]

(***************************************************************************)
(* The streams of the model: what a connection may deliver.  The server    *)
(* sends blocks; a block is its non-blank lines, and a blank line ends it. *)
(***************************************************************************)
EventLine(t) == EVENT_PREFIX \o <<" ">> \o t
DataLine(p) == DATA_PREFIX \o <<" ">> \o p

\* the object {"a":99...9} whose integer has one digit more than int() converts
HugeIntPayload ==
    <<"{", Quote, "a", Quote, ":">> \o [i \in 1..(INT_MAX_STR_DIGITS + 1) |-> "9"] \o <<"}">>

Blocks ==
    { <<EventLine(T_NAME), DataLine(<<Quote, "A", Quote>>)>>,
      <<EventLine(T_NAME), DataLine(HugeIntPayload)>>,
      <<EVENT_PREFIX \o T_NAME, DATA_PREFIX \o <<"B">>>>,
      <<EventLine(T_SINGER), DataLine(<<"B">>)>>,
      <<EventLine(T_PICURL), DataLine(<<"U">>)>>,
      <<EventLine(T_PICURL), DataLine(<<>>)>>,
      <<EventLine(T_LYRIC), DataLine(<<"L">>)>>,
      <<EventLine(T_DURATION), DataLine(<<"5">>)>>,
      <<EventLine(T_DURATION), DataLine(<<"-", "3">>)>>,
      <<EventLine(T_DURATION), DataLine(<<"x">>)>>,
      <<EventLine(T_DURATION), DataLine(<<>>)>>,
      <<EventLine(T_DURATION), DataLine(<<"n", "a", "n">>)>>,
      <<EventLine(T_DURATION), DataLine(<<"{", Quote, "a", Quote, ":", "1", "}">>)>>,
      <<EventLine(T_PROGRESS), DataLine(<<"7">>)>>,
      <<EventLine(T_PROGRESS), DataLine(<<"{", "}">>)>>,
      <<EventLine(T_PROGRESS), DataLine(<<Quote, "x", Quote>>)>>,
      <<EventLine(<<"s", "t", "a", "t", "u", "s">>), DataLine(<<"x">>)>>,
      <<<<":", "p">>>>,
      <<>> }

\* the blocks of the streams the life cycle is checked on: two events that
\* are published, one whose payload makes float raise TypeError, a keep-alive
LifeBlocks ==
    { <<EventLine(T_NAME), DataLine(<<Quote, "A", Quote>>)>>,
      <<EventLine(T_SINGER), DataLine(<<"B">>)>>,
      <<EventLine(T_DURATION), DataLine(<<"{", Quote, "a", Quote, ":", "1", "}">>)>>,
      <<>> }

\* the lines of a block on the wire
WireOf(b) == b \o << <<>> >>

(***************************************************************************)
(* State.                                                                  *)
(***************************************************************************)
Workers == 1..MaxStarts

None == [t |-> "none", s |-> <<>>, n |-> 0]

VARIABLES
    running,        \* SSEClient.running
    session_closed, \* SSEClient.session has been closed
    music_data,     \* the global MusicData instance
    npub,           \* emissions of update_signal so far
    lastpub,        \* the last emission: its origin and the dict emitted
    timers,         \* threading.Timer objects started and not yet fired
    started,        \* invocations of start so far
    pc,             \* each invocation's position in start
    event_buffer,   \* each invocation's local event_buffer
    line,           \* each invocation's loop variable
    wire,           \* the lines of the block each connection is delivering
    nreads,         \* lines delivered so far
    stopCalled,     \* history: stop has been called from outside
    stopInDelay,    \* history: stop has been called while a timer was pending
    last_recv,      \* history: per field, the payload of the last event of its type
    last_applied,   \* history: the same, of the events applied without raising
    last_block,     \* history: the lines of the block parsed last
    stopSeen,       \* history: the invocations stop was called during
    at_failure,     \* history: music_data when the error handler last ran
    t_in,           \* the event type text handed to _parse_event_data
    d_in,           \* the payload text handed to _parse_event_data
    parse_called,   \* _parse_event_data has returned
    parsed,         \* what it returned
    observers,      \* the Plugins whose update_content is connected to the signal
    ui_ready,       \* per Plugin: _setup_ui has made its labels
    queue,          \* the calls of slots posted to the GUI thread
    emitted,        \* history: the dicts emitted, in order
    received,       \* history: per Plugin, the dicts its slot was called with
    upc,            \* per Plugin: the position in update_content
    arg,            \* per Plugin: the data argument of update_content
    view,           \* per Plugin: what update_content has read from data
    caught,         \* per Plugin: exceptions caught in update_content
    crashed,        \* an exception has left a slot
    labels,         \* per Plugin: the texts and the progress bar shown
    last_song_name, \* Plugin.last_song_name
    last_artist,    \* Plugin.last_artist
    last_cover_url, \* Plugin.last_cover_url
    current_cover_retries, \* Plugin.current_cover_retries
    current_loading_url,   \* Plugin.current_loading_url
    cover_label,    \* per Plugin: the URL whose image cover_label shows
    loads           \* the threads running _load_cover_image

vars ==
    <<running, session_closed, music_data, npub, lastpub, timers, started, pc,
      event_buffer, line, wire, nreads, stopCalled, stopInDelay, last_recv,
      last_applied, last_block, stopSeen, at_failure, t_in, d_in, parse_called,
      parsed, observers, ui_ready, queue, emitted, received, upc, arg, view, caught,
      crashed, labels, last_song_name, last_artist, last_cover_url,
      current_cover_retries, current_loading_url, cover_label, loads>>

shared == <<running, session_closed, stopCalled, stopInDelay, stopSeen>>
store == <<music_data, npub, lastpub, last_recv, last_applied, last_block, at_failure>>
locals == <<event_buffer, line, wire>>
\* the arguments and the result of a call of the parser on its own
parser == <<t_in, d_in, parse_called, parsed>>
\* the state no step of the SSE client touches
\* the Plugins and their load threads
plugin ==
    <<observers, ui_ready, queue, emitted, received, upc, arg, view, caught, crashed,
      labels, last_song_name, last_artist, last_cover_url, current_cover_retries,
      current_loading_url, cover_label, loads>>
nonclient == <<parser, plugin>>
\* the state of the SSE client and of the store it writes
client == <<shared, store, locals, pc, timers, started, nreads>>

ClientInit ==
    /\ running = FALSE
    /\ session_closed = FALSE
    /\ music_data = MusicDataInit
    /\ npub = 0
    /\ lastpub = [kind |-> "none", snap |-> SnapshotOf(MusicDataInit)]
    /\ timers = 0
    /\ started = 0
    /\ pc = [w \in Workers |-> "idle"]
    /\ event_buffer = [w \in Workers |-> <<>>]
    /\ line = [w \in Workers |-> <<>>]
    /\ wire = [w \in Workers |-> <<>>]
    /\ nreads = 0
    /\ stopCalled = FALSE
    /\ stopInDelay = FALSE
    /\ last_recv = [f \in Fields |-> None]
    /\ last_applied = [f \in Fields |-> None]
    /\ last_block = <<>>
    /\ stopSeen = {}
    /\ at_failure = MusicDataInit

\* no call of the parser on its own
ParserIdle ==
    /\ t_in = <<>>
    /\ d_in = <<>>
    /\ parse_called = FALSE
    /\ parsed = [event_type |-> <<>>, data |-> Str(<<>>), exc |-> ""]

(***************************************************************************)
(* Plugin._start_sse_client and the retry timer: both run start in a       *)
(* thread of its own.                                                      *)
(***************************************************************************)
StartWorker ==
    /\ started = 0
    /\ started' = 1
    /\ pc' = [pc EXCEPT ![1] = "start"]
    /\ UNCHANGED <<nonclient, shared, store, locals, timers, nreads>>

TimerFire ==
    /\ timers > 0
    /\ started >= 1
    /\ started < MaxStarts
    /\ timers' = timers - 1
    /\ started' = started + 1
    /\ pc' = [pc EXCEPT ![started + 1] = "start"]
    /\ UNCHANGED <<nonclient, shared, store, locals, nreads>>

(***************************************************************************)
(* SSEClient.stop, called from another thread (Plugin.cleanup).            *)
(***************************************************************************)
\* the positions of start from the connection attempt to the creation of the
\* retry timer
InFlight == {"connect", "read", "check", "process", "except", "chk_timer", "mk_timer"}

Stop ==
    /\ started >= 1
    /\ running' = FALSE
    /\ session_closed' = TRUE
    /\ stopCalled' = TRUE
    /\ stopInDelay' = (stopInDelay \/ timers > 0)
    /\ stopSeen' = stopSeen \cup {w \in Workers : pc[w] \in InFlight}
    /\ UNCHANGED <<nonclient, store, locals, timers, started, pc, nreads>>

(***************************************************************************)
(* SSEClient.start, one step per access to shared state.                   *)
(***************************************************************************)
\* self.running = True
Begin(w) ==
    /\ pc[w] = "start"
    /\ running' = TRUE
    /\ pc' = [pc EXCEPT ![w] = "connect"]
    /\ UNCHANGED <<nonclient, session_closed, stopCalled, stopInDelay, stopSeen, store,
                   locals, timers,
                   started, nreads>>

\* session.get, raise_for_status, event_buffer = []
Connect(w) ==
    /\ pc[w] = "connect"
    /\ \/ /\ pc' = [pc EXCEPT ![w] = "read"]
          /\ event_buffer' = [event_buffer EXCEPT ![w] = <<>>]
          /\ wire' = [wire EXCEPT ![w] = <<>>]
          /\ UNCHANGED line
       \/ /\ pc' = [pc EXCEPT ![w] = "except"]
          /\ UNCHANGED locals
    /\ UNCHANGED <<nonclient, shared, store, timers, started, nreads>>

\* response.iter_lines: the next line, the end of the stream, or a
\* requests.RequestException
ReadLine(w, B, n) ==
    /\ pc[w] = "read"
    /\ \/ /\ nreads < n
          /\ \E b \in (IF wire[w] = <<>> THEN B ELSE {<<>>}) :
                LET ls == IF wire[w] = <<>> THEN WireOf(b) ELSE wire[w]
                IN /\ line' = [line EXCEPT ![w] = Head(ls)]
                   /\ wire' = [wire EXCEPT ![w] = Tail(ls)]
          /\ nreads' = nreads + 1
          /\ pc' = [pc EXCEPT ![w] = "check"]
          /\ UNCHANGED event_buffer
       \/ /\ pc' = [pc EXCEPT ![w] = "finally"]
          /\ UNCHANGED <<locals, nreads>>
       \/ /\ pc' = [pc EXCEPT ![w] = "except"]
          /\ UNCHANGED <<locals, nreads>>
    /\ UNCHANGED <<nonclient, shared, store, timers, started>>

\* if not self.running: break
CheckRunning(w) ==
    /\ pc[w] = "check"
    /\ pc' = [pc EXCEPT ![w] = IF running THEN "process" ELSE "finally"]
    /\ UNCHANGED <<nonclient, shared, store, locals, timers, started, nreads>>

\* the history of the events received and applied
Record(hist, event_type, data, cond) ==
    IF FieldOf(event_type) # "" /\ cond
    THEN [hist EXCEPT ![FieldOf(event_type)] = data]
    ELSE hist

\* Process with the buffer left as it is after the block has been applied
ProcessKeepBuffer(w) ==
    /\ pc[w] = "process"
    /\ IF line[w] # <<>>
       THEN /\ event_buffer' = [event_buffer EXCEPT ![w] = Append(@, line[w])]
            /\ pc' = [pc EXCEPT ![w] = "read"]
            /\ UNCHANGED store
       ELSE IF event_buffer[w] # <<>>
       THEN LET ev == ParseEventData(Join(event_buffer[w]))
                u == IF ev.exc # ""
                     THEN [md |-> music_data, emit |-> FALSE, exc |-> ev.exc]
                     ELSE UpdateMusicData(music_data, ev.event_type, ev.data)
            IN /\ music_data' = u.md
               /\ npub' = IF u.emit THEN npub + 1 ELSE npub
               /\ lastpub' = IF u.emit
                             THEN [kind |-> "data", snap |-> SnapshotOf(u.md)]
                             ELSE lastpub
               /\ last_recv' = Record(last_recv, ev.event_type, ev.data, ev.exc = "")
               /\ last_applied' = Record(last_applied, ev.event_type, ev.data, u.emit)
               /\ last_block' = event_buffer[w]
               /\ UNCHANGED at_failure
               /\ IF u.exc = ""
                  THEN /\ UNCHANGED event_buffer
                       /\ pc' = [pc EXCEPT ![w] = "read"]
                  ELSE /\ UNCHANGED event_buffer
                       /\ pc' = [pc EXCEPT ![w] = "finally"]
       ELSE /\ pc' = [pc EXCEPT ![w] = "read"]
            /\ UNCHANGED <<store, event_buffer>>
    /\ UNCHANGED <<nonclient, shared, line, wire, timers, started, nreads>>

\* the body of the loop: accumulate the line, or parse and apply the block; an
\* exception that leaves the parser or _update_music_data ends the loop
Process(w) ==
    /\ pc[w] = "process"
    /\ IF line[w] # <<>>
       THEN /\ event_buffer' = [event_buffer EXCEPT ![w] = Append(@, line[w])]
            /\ pc' = [pc EXCEPT ![w] = "read"]
            /\ UNCHANGED store
       ELSE IF event_buffer[w] # <<>>
       THEN LET ev == ParseEventData(Join(event_buffer[w]))
                u == IF ev.exc # ""
                     THEN [md |-> music_data, emit |-> FALSE, exc |-> ev.exc]
                     ELSE UpdateMusicData(music_data, ev.event_type, ev.data)
            IN /\ music_data' = u.md
               /\ npub' = IF u.emit THEN npub + 1 ELSE npub
               /\ lastpub' = IF u.emit
                             THEN [kind |-> "data", snap |-> SnapshotOf(u.md)]
                             ELSE lastpub
               /\ last_recv' = Record(last_recv, ev.event_type, ev.data, ev.exc = "")
               /\ last_applied' = Record(last_applied, ev.event_type, ev.data, u.emit)
               /\ last_block' = event_buffer[w]
               /\ UNCHANGED at_failure
               /\ IF u.exc = ""
                  THEN /\ event_buffer' = [event_buffer EXCEPT ![w] = <<>>]
                       /\ pc' = [pc EXCEPT ![w] = "read"]
                  ELSE /\ UNCHANGED event_buffer
                       /\ pc' = [pc EXCEPT ![w] = "finally"]
       ELSE /\ pc' = [pc EXCEPT ![w] = "read"]
            /\ UNCHANGED <<store, event_buffer>>
    /\ UNCHANGED <<nonclient, shared, line, wire, timers, started, nreads>>

\* Except with the store reset to its initial values
ExceptResetStore(w) ==
    /\ pc[w] = "except"
    /\ npub' = npub + 1
    /\ lastpub' = [kind |-> "cleared", snap |-> ClearedSnapshot]
    /\ at_failure' = music_data
    /\ music_data' = MusicDataInit
    /\ pc' = [pc EXCEPT ![w] = "chk_timer"]
    /\ UNCHANGED <<nonclient, shared, last_recv, last_applied, last_block, locals,
                   timers, started, nreads>>

\* Except with nothing emitted
ExceptSilent(w) ==
    /\ pc[w] = "except"
    /\ at_failure' = music_data
    /\ pc' = [pc EXCEPT ![w] = "chk_timer"]
    /\ UNCHANGED <<nonclient, shared, music_data, npub, lastpub, last_recv, last_applied,
                   last_block, locals, timers, started, nreads>>

\* except requests.RequestException: emit the cleared snapshot
Except(w) ==
    /\ pc[w] = "except"
    /\ npub' = npub + 1
    /\ lastpub' = [kind |-> "cleared", snap |-> ClearedSnapshot]
    /\ at_failure' = music_data
    /\ pc' = [pc EXCEPT ![w] = "chk_timer"]
    /\ UNCHANGED <<nonclient, shared, music_data, last_recv, last_applied, last_block, locals,
                   timers, started, nreads>>

\* if self.running:
CheckTimer(w) ==
    /\ pc[w] = "chk_timer"
    /\ pc' = [pc EXCEPT ![w] = IF running THEN "mk_timer" ELSE "finally"]
    /\ UNCHANGED <<nonclient, shared, store, locals, timers, started, nreads>>

\* MakeTimer with the invocation also connecting again itself
MakeTimerAndReconnect(w) ==
    /\ pc[w] = "mk_timer"
    /\ timers' = timers + 1
    /\ pc' = [pc EXCEPT ![w] = "connect"]
    /\ UNCHANGED <<nonclient, shared, store, locals, started, nreads>>

\* threading.Timer(5.0, self.start).start()
MakeTimer(w) ==
    /\ pc[w] = "mk_timer"
    /\ timers' = timers + 1
    /\ pc' = [pc EXCEPT ![w] = "finally"]
    /\ UNCHANGED <<nonclient, shared, store, locals, started, nreads>>

\* finally: if not self.running:
Finally(w) ==
    /\ pc[w] = "finally"
    /\ pc' = [pc EXCEPT ![w] = IF running THEN "done" ELSE "fin_stop"]
    /\ event_buffer' = [event_buffer EXCEPT ![w] = <<>>]
    /\ line' = [line EXCEPT ![w] = <<>>]
    /\ wire' = [wire EXCEPT ![w] = <<>>]
    /\ UNCHANGED <<nonclient, shared, store, timers, started, nreads>>

\* self.stop(), from the finally block
FinallyStop(w) ==
    /\ pc[w] = "fin_stop"
    /\ running' = FALSE
    /\ session_closed' = TRUE
    /\ pc' = [pc EXCEPT ![w] = "done"]
    /\ UNCHANGED <<nonclient, stopCalled, stopInDelay, stopSeen, store, locals, timers,
                   started, nreads>>

\* the steps of start that neither read the stream nor follow a stop
Step(w) ==
    \/ Begin(w)
    \/ Connect(w)
    \/ CheckRunning(w)
    \/ Process(w)
    \/ Except(w)
    \/ CheckTimer(w)
    \/ MakeTimer(w)
    \/ Finally(w)

(***************************************************************************)
(* The slots of update_signal.  Every Plugin connects its update_content   *)
(* when it is constructed; the signal is emitted from the worker thread,   *)
(* so each emission is posted to the event queue of the GUI thread, once   *)
(* per connected slot in the order of connection, and the GUI thread runs  *)
(* the slots one after the other.                                          *)
(***************************************************************************)
MaxEmits == 3

Plugins == {1, 2}

\* DataOf with the slot handed a view of the live store
DataOfLiveStore(posted, live) == live

\* the dict handed to a slot is the one the emission built: a value of its own,
\* whatever the store has become since
DataOf(posted, live) == posted

\* one posted call per connected slot
Post(q, snap) ==
    LET q1 == IF 1 \in observers THEN Append(q, [to |-> 1, data |-> snap]) ELSE q
    IN IF 2 \in observers THEN Append(q1, [to |-> 2, data |-> snap]) ELSE q1

\* the (event_type, data) pairs _update_music_data is called with
SlotEvents ==
    {[event_type |-> T_NAME, data |-> Str(<<"A">>)],
     [event_type |-> T_NAME, data |-> Dict(1)],
     [event_type |-> T_LYRIC, data |-> Str(<<"L">>)]}

NoView ==
    [lyrics |-> None, title |-> None, artist |-> None, cover_url |-> None,
     duration |-> None, progress |-> None]

NoLabels == [title |-> Str(<<>>), artist |-> Str(<<>>), main |-> Str(<<>>),
             bar |-> <<Num(0), Num(1)>>]

\* no Plugin constructed
PluginIdle ==
    /\ observers = {}
    /\ ui_ready = [o \in Plugins |-> FALSE]
    /\ queue = <<>>
    /\ emitted = <<>>
    /\ received = [o \in Plugins |-> <<>>]
    /\ upc = [o \in Plugins |-> "idle"]
    /\ arg = [o \in Plugins |-> NoView]
    /\ view = [o \in Plugins |-> NoView]
    /\ caught = [o \in Plugins |-> 0]
    /\ crashed = FALSE
    /\ labels = [o \in Plugins |-> NoLabels]
    /\ last_song_name = [o \in Plugins |-> Str(<<>>)]
    /\ last_artist = [o \in Plugins |-> Str(<<>>)]
    /\ last_cover_url = [o \in Plugins |-> Str(<<>>)]
    /\ current_cover_retries = [o \in Plugins |-> 0]
    /\ current_loading_url = [o \in Plugins |-> Str(<<>>)]
    /\ cover_label = [o \in Plugins |-> None]
    /\ loads = <<>>

\* the Plugins of obs constructed, each with or without its widgets
PluginInit(obs) ==
    /\ observers = obs
    /\ ui_ready \in [Plugins -> BOOLEAN]
    /\ \A o \in Plugins \ obs : ~ui_ready[o]
    /\ queue = <<>>
    /\ emitted = <<>>
    /\ received = [o \in Plugins |-> <<>>]
    /\ upc = [o \in Plugins |-> "idle"]
    /\ arg = [o \in Plugins |-> NoView]
    /\ view = [o \in Plugins |-> NoView]
    /\ caught = [o \in Plugins |-> 0]
    /\ crashed = FALSE
    /\ labels = [o \in Plugins |-> NoLabels]
    /\ last_song_name = [o \in Plugins |-> Str(<<>>)]
    /\ last_artist = [o \in Plugins |-> Str(<<>>)]
    /\ last_cover_url = [o \in Plugins |-> Str(<<>>)]
    /\ current_cover_retries = [o \in Plugins |-> 0]
    /\ current_loading_url = [o \in Plugins |-> Str(<<>>)]
    /\ cover_label = [o \in Plugins |-> None]
    /\ loads = <<>>

gui == <<upc, arg, view, caught, crashed, labels, last_song_name, last_artist,
         last_cover_url>>
cover == <<current_cover_retries, current_loading_url, cover_label, loads>>

\* _update_music_data called in the worker thread, its emission posted to the
\* connected slots
UpdateAndEmit ==
    /\ ~crashed
    /\ Len(emitted) < MaxEmits
    /\ \E e \in SlotEvents :
          LET u == UpdateMusicData(music_data, e.event_type, e.data)
          IN /\ music_data' = u.md
             /\ npub' = IF u.emit THEN npub + 1 ELSE npub
             /\ lastpub' = IF u.emit
                           THEN [kind |-> "data", snap |-> SnapshotOf(u.md)]
                           ELSE lastpub
             /\ last_recv' = Record(last_recv, e.event_type, e.data, TRUE)
             /\ last_applied' = Record(last_applied, e.event_type, e.data, u.emit)
             /\ emitted' = IF u.emit THEN Append(emitted, SnapshotOf(u.md)) ELSE emitted
             /\ queue' = IF u.emit THEN Post(queue, SnapshotOf(u.md)) ELSE queue
    /\ UNCHANGED <<shared, last_block, at_failure, locals, pc, timers, started, nreads,
                   parser, observers, ui_ready, received, gui, cover>>

\* a >= b on floats
PyGe(a, b) == a.t = "num" /\ b.t = "num" /\ a.n >= b.n

\* update_content, up to the comparison with the song shown last
Enter(o, data) ==
    LET d == DataOf(data, SnapshotOf(music_data))
    IN /\ upc[o] = "idle"
       /\ arg' = [arg EXCEPT ![o] = data]
       /\ received' = [received EXCEPT ![o] = Append(@, data)]
       /\ view' = [view EXCEPT ![o] = [d EXCEPT !.lyrics = None]]
       /\ labels' = IF ui_ready[o]
                    THEN [labels EXCEPT ![o].bar =
                              IF PyGt(d.duration, Num(0)) /\ PyGe(d.progress, Num(0))
                              THEN <<d.progress, d.duration>>
                              ELSE <<Num(0), Num(1)>>]
                    ELSE labels
       /\ upc' = [upc EXCEPT ![o] =
                     IF \/ d.title # last_song_name[o]
                        \/ d.artist # last_artist[o]
                        \/ d.cover_url # last_cover_url[o]
                     THEN "reset" ELSE "labels"]
       /\ UNCHANGED <<client, parser, observers, ui_ready, emitted, caught, crashed,
                      last_song_name, last_artist, last_cover_url, cover>>

\* the GUI thread takes the next posted call; it runs one slot at a time
Deliver(o) ==
    /\ ~crashed
    /\ \A p \in Plugins : upc[p] = "idle"
    /\ queue # <<>>
    /\ Head(queue).to = o
    /\ queue' = Tail(queue)
    /\ Enter(o, Head(queue).data)

\* self.current_cover_retries = 0
ResetRetries(o) ==
    /\ upc[o] = "reset"
    /\ current_cover_retries' = [current_cover_retries EXCEPT ![o] = 0]
    /\ upc' = [upc EXCEPT ![o] = "seturl"]
    /\ UNCHANGED <<client, parser, observers, ui_ready, queue, emitted, received, arg,
                   view, caught, crashed, labels, last_song_name, last_artist,
                   last_cover_url, current_loading_url, cover_label, loads>>

\* self.current_loading_url = current_cover_url
SetLoadingUrl(o) ==
    /\ upc[o] = "seturl"
    /\ current_loading_url' = [current_loading_url EXCEPT ![o] = view[o].cover_url]
    /\ upc' = [upc EXCEPT ![o] = "spawn"]
    /\ UNCHANGED <<client, parser, observers, ui_ready, queue, emitted, received, arg,
                   view, caught, crashed, labels, last_song_name, last_artist,
                   last_cover_url, current_cover_retries, cover_label, loads>>

\* start the load thread, or clear the cover; then save the song shown
StartLoad(o) ==
    /\ upc[o] = "spawn"
    /\ IF Truthy(view[o].cover_url) /\ current_cover_retries[o] < 5 /\ ui_ready[o]
       THEN /\ loads' = Append(loads, [owner |-> o, url |-> view[o].cover_url,
                                       pc |-> "check_url", tmp |-> 0])
            /\ UNCHANGED cover_label
       ELSE /\ cover_label' = IF ui_ready[o] THEN [cover_label EXCEPT ![o] = None]
                              ELSE cover_label
            /\ UNCHANGED loads
    /\ last_song_name' = [last_song_name EXCEPT ![o] = view[o].title]
    /\ last_artist' = [last_artist EXCEPT ![o] = view[o].artist]
    /\ last_cover_url' = [last_cover_url EXCEPT ![o] = view[o].cover_url]
    /\ upc' = [upc EXCEPT ![o] = "labels"]
    /\ UNCHANGED <<client, parser, observers, ui_ready, queue, emitted, received, arg,
                   view, caught, crashed, labels, current_cover_retries,
                   current_loading_url>>

\* an except clause for ValueError alone, as in _update_music_data
CatchesValueError(exc) == exc = "ValueError"

\* the except clause of update_content: except Exception
Catches(exc) == TRUE

DOTS == Str(<<"DOTS">>)

\* main_text: the first line of the stripped lyrics
MainText(lyrics) ==
    IF Strip(lyrics.s) = <<>> THEN DOTS ELSE Str(Strip(Split(Strip(lyrics.s))[1]))

\* the texts of the labels and the lyrics: setText raises TypeError for a
\* title that is no str, and a dict has no strip
SetLabels(o) ==
    /\ upc[o] = "labels"
    /\ LET d == DataOf(arg[o], SnapshotOf(music_data))
           t == view[o].title
           a == view[o].artist
           exc == IF ui_ready[o] /\ t.t # "str" THEN "TypeError"
                  ELSE IF d.lyrics.t # "str" THEN "AttributeError"
                  ELSE ""
           titled == IF ui_ready[o] /\ exc # "TypeError"
                     THEN [labels EXCEPT ![o].title = t, ![o].artist = a]
                     ELSE labels
       IN /\ labels' = IF ui_ready[o] /\ exc = ""
                       THEN [titled EXCEPT ![o].main = MainText(d.lyrics)]
                       ELSE titled
          /\ view' = IF exc = "TypeError" THEN view
                     ELSE [view EXCEPT ![o].lyrics = d.lyrics]
          /\ caught' = IF exc # "" /\ Catches(exc)
                       THEN [caught EXCEPT ![o] = @ + 1] ELSE caught
          /\ crashed' = (exc # "" /\ ~Catches(exc))
    /\ upc' = [upc EXCEPT ![o] = "idle"]
    /\ UNCHANGED <<client, parser, observers, ui_ready, queue, emitted, received, arg,
                   last_song_name, last_artist, last_cover_url, cover>>

\* the steps of update_content after its entry
UpdateContentStep(o) ==
    \/ ResetRetries(o)
    \/ SetLoadingUrl(o)
    \/ StartLoad(o)
    \/ SetLabels(o)

InitDeliver == ClientInit /\ ParserIdle /\ PluginInit(Plugins)

NextDeliver ==
    \/ UpdateAndEmit
    \/ \E o \in Plugins : Deliver(o) \/ UpdateContentStep(o)

SpecDeliver == InitDeliver /\ [][NextDeliver]_vars

(***************************************************************************)
(* Plugin._load_cover_image, run in a thread of its own for every cover    *)
(* update_content starts a load for; one step per access to the state it   *)
(* shares with update_content and with the other load threads.             *)
(***************************************************************************)
MaxCalls == 3

HTTP_PREFIX == <<"h", "t", "t", "p", ":", "/", "/">>
HTTPS_PREFIX == <<"h", "t", "t", "p", "s", ":", "/", "/">>
DATA_IMAGE_PREFIX == <<"d", "a", "t", "a", ":", "i", "m", "a", "g", "e", "/">>

\* the covers of the snapshots: one fetched over HTTP, one a data: URI, none
CoverUrls == {Str(HTTP_PREFIX \o <<"u">>), Str(DATA_IMAGE_PREFIX \o <<",">>), Str(<<>>)}

\* the dicts update_content is called with
CoverSnapshots == {SnapshotOf([MusicDataInit EXCEPT !.cover_url = c]) : c \in CoverUrls}

\* the load threads started so far
Threads == 1..Len(loads)

\* thread k has been started and is at position p
At(k, p) == k \in Threads /\ loads[k].pc = p

\* thread k moves to position p
Goto(k, p) == loads' = [loads EXCEPT ![k].pc = p]

\* if url != self.current_loading_url: return
CheckUrl(k) ==
    /\ At(k, "check_url")
    /\ Goto(k, IF loads[k].url # current_loading_url[loads[k].owner]
               THEN "done" ELSE "check_retries")
    /\ UNCHANGED <<client, parser, observers, ui_ready, queue, emitted, received, gui,
                   current_cover_retries, current_loading_url, cover_label>>

\* if self.current_cover_retries >= 5: clear the cover and return
CheckRetries(k) ==
    LET o == loads[k].owner
    IN /\ At(k, "check_retries")
       /\ IF current_cover_retries[o] >= 5
          THEN /\ cover_label' = IF ui_ready[o] THEN [cover_label EXCEPT ![o] = None]
                                 ELSE cover_label
               /\ Goto(k, "done")
          ELSE /\ UNCHANGED cover_label
               /\ Goto(k, "read_retries")
       /\ UNCHANGED <<client, parser, observers, ui_ready, queue, emitted, received, gui,
                      current_cover_retries, current_loading_url>>

\* self.current_cover_retries += 1, the read
ReadRetries(k) ==
    /\ At(k, "read_retries")
    /\ loads' = [loads EXCEPT ![k].pc = "write_retries",
                              ![k].tmp = current_cover_retries[loads[k].owner]]
    /\ UNCHANGED <<client, parser, observers, ui_ready, queue, emitted, received, gui,
                   current_cover_retries, current_loading_url, cover_label>>

\* self.current_cover_retries += 1, the write
WriteRetries(k) ==
    /\ At(k, "write_retries")
    /\ current_cover_retries' =
          [current_cover_retries EXCEPT ![loads[k].owner] = loads[k].tmp + 1]
    /\ Goto(k, "fetch")
    /\ UNCHANGED <<client, parser, observers, ui_ready, queue, emitted, received, gui,
                   current_loading_url, cover_label>>

\* decode the data: URI or fetch the URL: the image, an exception, or a return
\* for any other scheme
Fetch(k) ==
    /\ At(k, "fetch")
    /\ IF StartsWith(loads[k].url.s, DATA_IMAGE_PREFIX)
       THEN \E p \in {"reset", "error"} : Goto(k, p)
       ELSE IF \/ StartsWith(loads[k].url.s, HTTP_PREFIX)
               \/ StartsWith(loads[k].url.s, HTTPS_PREFIX)
       THEN \E p \in {"reset", "failed"} : Goto(k, p)
       ELSE Goto(k, "done")
    /\ UNCHANGED <<client, parser, observers, ui_ready, queue, emitted, received, gui,
                   current_cover_retries, current_loading_url, cover_label>>

\* self.current_cover_retries = 0, after the load
ResetAfterLoad(k) ==
    /\ At(k, "reset")
    /\ current_cover_retries' = [current_cover_retries EXCEPT ![loads[k].owner] = 0]
    /\ Goto(k, "set_image")
    /\ UNCHANGED <<client, parser, observers, ui_ready, queue, emitted, received, gui,
                   current_loading_url, cover_label>>

\* self.cover_label.setImage(temp_pixmap)
SetImage(k) ==
    LET o == loads[k].owner
    IN /\ At(k, "set_image")
       /\ cover_label' = IF ui_ready[o] THEN [cover_label EXCEPT ![o] = loads[k].url]
                         ELSE cover_label
       /\ Goto(k, "done")
       /\ UNCHANGED <<client, parser, observers, ui_ready, queue, emitted, received, gui,
                      current_cover_retries, current_loading_url>>

\* except requests.exceptions.RequestException
LoadFailed(k) ==
    LET o == loads[k].owner
    IN /\ At(k, "failed")
       /\ cover_label' = IF current_cover_retries[o] >= 5 /\ ui_ready[o]
                         THEN [cover_label EXCEPT ![o] = None]
                         ELSE cover_label
       /\ Goto(k, "done")
       /\ UNCHANGED <<client, parser, observers, ui_ready, queue, emitted, received, gui,
                      current_cover_retries, current_loading_url>>

\* except Exception
LoadErrored(k) ==
    LET o == loads[k].owner
    IN /\ At(k, "error")
       /\ cover_label' = IF ui_ready[o] THEN [cover_label EXCEPT ![o] = None]
                         ELSE cover_label
       /\ Goto(k, "done")
       /\ UNCHANGED <<client, parser, observers, ui_ready, queue, emitted, received, gui,
                      current_cover_retries, current_loading_url>>

\* the steps of _load_cover_image
LoadStep(k) ==
    \/ CheckUrl(k)
    \/ CheckRetries(k)
    \/ ReadRetries(k)
    \/ WriteRetries(k)
    \/ Fetch(k)
    \/ ResetAfterLoad(k)
    \/ SetImage(k)
    \/ LoadFailed(k)
    \/ LoadErrored(k)

\* update_content called with a snapshot, in the GUI thread
UpdateContent(o) ==
    /\ o \in observers
    /\ Len(received[o]) < MaxCalls
    /\ \A p \in Plugins : upc[p] = "idle"
    /\ \E data \in CoverSnapshots : Enter(o, data)
    /\ UNCHANGED queue

InitCover == ClientInit /\ ParserIdle /\ PluginInit({1})

NextCover ==
    \/ \E o \in Plugins : UpdateContent(o) \/ UpdateContentStep(o)
    \/ \E k \in 1..MaxCalls : LoadStep(k)

SpecCover == InitCover /\ [][NextCover]_vars

\* the client alone: no call of the parser on its own, no Plugin
Init == ClientInit /\ ParserIdle /\ PluginIdle

\* the life cycle: start, stop from outside, failures and retries
Next ==
    \/ StartWorker
    \/ TimerFire
    \/ Stop
    \/ \E w \in Workers : Step(w) \/ ReadLine(w, LifeBlocks, MaxLifeReads) \/ FinallyStop(w)

Spec == Init /\ [][Next]_vars

\* the data path: one invocation of start reading every block of Blocks, until
\* the stream ends or fails
NextData ==
    \/ StartWorker
    \/ \E w \in Workers : Step(w) \/ ReadLine(w, Blocks, MaxReads)

SpecData == Init /\ [][NextData]_vars

(***************************************************************************)
(* SSEClient._parse_event_data called on its own, on the block of an       *)
(* event: line and a data: line.                                           *)
(***************************************************************************)
MaxTypeLen == 2
MaxDataLen == 3

\* the characters of the event types and of the payloads
TypeChars == {"a", " "}
DataChars == {"a", " ", Quote, "{", "}"}

\* the texts of at most n characters
Texts(chars, n) == UNION {[1..k -> chars] : k \in 0..n}

\* payloads longer than MaxDataLen: an object with a member, well-formed,
\* padded, cut short and with the integer too long, and a padded string
\* literal with a blank inside
LongPayloads ==
    {<<"{", Quote, "a", Quote, ":", "1", "}">>,
     HugeIntPayload,
     <<" ", "{", Quote, "a", Quote, ":", "1", "}", " ">>,
     <<"{", Quote, "a", Quote, ":", "1">>,
     <<" ", Quote, "a", " ", "a", Quote, " ">>}

TypeTexts == Texts(TypeChars, MaxTypeLen)
DataTexts == Texts(DataChars, MaxDataLen) \cup LongPayloads

\* the block 'event:<t>\ndata:<d>'
BlockOf(t, d) == Join(<<EVENT_PREFIX \o t, DATA_PREFIX \o d>>)

InitParse ==
    /\ ClientInit
    /\ t_in \in TypeTexts
    /\ d_in \in DataTexts
    /\ parse_called = FALSE
    /\ parsed = [event_type |-> <<>>, data |-> Str(<<>>), exc |-> ""]
    /\ PluginIdle

\* event_type, data = self._parse_event_data(event_data)
ParseBlock ==
    /\ ~parse_called
    /\ parse_called' = TRUE
    /\ parsed' = ParseEventData(BlockOf(t_in, d_in))
    /\ UNCHANGED <<client, plugin, t_in, d_in>>

NextParse == ParseBlock

SpecParse == InitParse /\ [][NextParse]_vars

(***************************************************************************)
(* Vocabulary of the properties.                                           *)
(***************************************************************************)
\* invocation w is about to parse and apply the block in its buffer
AtFlush(w) == pc[w] = "process" /\ line[w] = <<>> /\ event_buffer[w] # <<>>

\* the step taken is that parse-and-apply of invocation w
FlushStep(w) == AtFlush(w) /\ pc'[w] # pc[w]

\* the event invocation w is about to apply
EventOf(w) == ParseEventData(Join(event_buffer[w]))

NumericFields == {"duration", "progress"}

\* a payload float cannot turn into a number: a non-numeric string, an object
Unparseable(data) == Truthy(data) /\ PyFloat(data).exc # ""

\* an invocation of start is between its first line and its return
Active(w) == pc[w] \notin {"idle", "done"}

(***************************************************************************)
(* C1.  Once stop() has been called, no further snapshot is published,     *)
(* neither by _update_music_data nor by the error handler.                 *)
(***************************************************************************)
C1_NoPublishAfterStop == [][stopCalled => npub' = npub]_vars

(***************************************************************************)
(* C2.  If stop() is called while a retry timer is pending, the retry      *)
(* never starts a connection attempt: running stays false and no           *)
(* invocation of start connects or reads from then on.                     *)
(***************************************************************************)
C2_StopCancelsPendingRetry ==
    stopInDelay => (~running /\ \A w \in Workers : pc[w] \notin {"connect", "read"})

(***************************************************************************)
(* C3.  While stop() has not been called, the client never ends up with    *)
(* no active worker and no pending retry: a failed attempt or an ended     *)
(* stream always leaves a retry behind.                                    *)
(***************************************************************************)
C3_RetryUntilStop ==
    (started >= 1 /\ ~stopCalled) => (timers > 0 \/ \E w \in Workers : Active(w))

(***************************************************************************)
(* C4.  A duration or progress event whose payload cannot be parsed as a   *)
(* number never aborts the stream: after it the read loop goes on to the   *)
(* next line of the same connection.                                       *)
(***************************************************************************)
C4_ParseFailureKeepsStreaming ==
    [][\A w \in Workers :
          (/\ FlushStep(w)
           /\ FieldOf(EventOf(w).event_type) \in NumericFields
           /\ Unparseable(EventOf(w).data))
          => pc'[w] = "read"]_vars

(***************************************************************************)
(* C5.  As claimed: applying a duration or progress event whose payload    *)
(* fails to parse as a number, or is empty, sets the field to 0, whatever  *)
(* its prior value was.                                                    *)
(***************************************************************************)
C5_FailureOrEmptySetsZero ==
    [][\A w \in Workers :
          LET f == FieldOf(EventOf(w).event_type)
              d == EventOf(w).data
          IN (FlushStep(w) /\ f \in NumericFields /\ (Unparseable(d) \/ ~Truthy(d)))
             => music_data'[f] = Num(0)]_vars

(***************************************************************************)
(* C5, amended.  An empty payload sets the field to 0; a payload that      *)
(* fails to parse leaves the field at its prior value, and no snapshot is  *)
(* published for that event.                                               *)
(***************************************************************************)
C5_EmptySetsZeroFailureKeeps ==
    [][\A w \in Workers :
          LET f == FieldOf(EventOf(w).event_type)
              d == EventOf(w).data
          IN (FlushStep(w) /\ f \in NumericFields)
             => /\ ~Truthy(d) => music_data'[f] = Num(0)
                /\ Unparseable(d) => (music_data'[f] = music_data[f] /\ npub' = npub)]_vars

\* a duration event that failed to parse has been applied to a store that held
\* the duration 5, and the store still holds it
C5_Witness ==
    /\ last_recv["duration"] # None
    /\ Unparseable(last_recv["duration"])
    /\ last_applied["duration"] = Str(<<"5">>)
    /\ music_data.duration = Num(5)

(***************************************************************************)
(* C6.  As claimed, the consequence drawn from the partial update: after   *)
(* any sequence of events each field holds the payload of the last event   *)
(* of its own type (for the two numeric fields: the number the table of    *)
(* coercions gives for that payload).                                      *)
(***************************************************************************)
\* the table's coercion: parse, clamp to >= 0, 0 on a parse failure or an
\* empty payload
TableSeconds(data) ==
    IF CoerceSeconds(data).exc = "" THEN CoerceSeconds(data).v ELSE Num(0)

\* what field f holds if it holds the payload p of the last event of its type
HoldsPayload(f, p) ==
    IF p = None THEN MusicDataInit[f]
    ELSE IF f \in NumericFields THEN TableSeconds(p)
    ELSE p

C6_EveryFieldHoldsLastPayload ==
    \A f \in Fields : music_data[f] = HoldsPayload(f, last_recv[f])

(***************************************************************************)
(* C6, amended.  An event of a mapped type changes at most the one field   *)
(* mapped to it, an event of any other type changes none, and no other     *)
(* step changes the store.  Hence each text field holds the payload of     *)
(* the last event of its type, and each numeric field the coerced payload  *)
(* of the last event of its type that did not fail to parse.               *)
(***************************************************************************)
\* what field f holds if p is the payload applied to it last
HoldsApplied(f, p) ==
    IF p = None THEN MusicDataInit[f]
    ELSE IF f \in NumericFields THEN CoerceSeconds(p).v
    ELSE p

FieldsHoldLast ==
    /\ \A f \in Fields \ NumericFields : music_data[f] = HoldsPayload(f, last_recv[f])
    /\ \A f \in NumericFields : music_data[f] = HoldsApplied(f, last_applied[f])

C6_PartialFieldUpdate ==
    [][/\ \A f \in Fields :
             music_data'[f] # music_data[f]
             => \E w \in Workers : FlushStep(w) /\ FieldOf(EventOf(w).event_type) = f
       /\ FieldsHoldLast']_vars

\* name="A" and singer="B" have been applied, the other fields keep their
\* initial values
C6_Witness ==
    /\ music_data.song_name = Str(<<"A">>)
    /\ music_data.artist = Str(<<"B">>)
    /\ \A f \in Fields \ {"song_name", "artist"} : music_data[f] = MusicDataInit[f]

(***************************************************************************)
(* C7.  As claimed: in every published snapshot each field equals the      *)
(* most recent value received on the stream for it (its initial default    *)
(* if none was); no publication carries values the stream did not report.  *)
(***************************************************************************)
\* the key of the emitted dict that carries field f
KeyOf(f) ==
    CASE f = "lyrics_text" -> "lyrics"
      [] f = "song_name" -> "title"
      [] OTHER -> f

C7_SnapshotHoldsLastReceived ==
    lastpub.kind # "none"
    => \A f \in Fields : lastpub.snap[KeyOf(f)] = HoldsPayload(f, last_recv[f])

(***************************************************************************)
(* C7, amended.  In every snapshot published by _update_music_data each    *)
(* field equals the value applied to it last (its initial default if       *)
(* none was): for a text field the payload of the last event of its type,  *)
(* for a numeric field the coerced payload of the last event of its type   *)
(* that did not fail to parse.  The only other publication is the cleared  *)
(* snapshot of the error handler, which carries the sentinel values.       *)
(***************************************************************************)
C7_SnapshotHoldsLastApplied ==
    /\ lastpub.kind = "data"
       => \A f \in Fields : lastpub.snap[KeyOf(f)] = HoldsApplied(f, last_applied[f])
    /\ lastpub.kind = "cleared" => lastpub.snap = ClearedSnapshot

\* a snapshot carrying the values of two events of two types has been published
C7_Witness ==
    /\ lastpub.kind = "data"
    /\ npub >= 2
    /\ lastpub.snap.title = Str(<<"B">>)
    /\ lastpub.snap.duration = Num(5)

(***************************************************************************)
(* C8.  As claimed: exactly one publication per state change; no snapshot  *)
(* is published without a change of the store.                             *)
(***************************************************************************)
C8_PublishedOnlyOnChange == [][npub' # npub => music_data' # music_data]_vars

(***************************************************************************)
(* C8, amended.  Every applied event that does not fail to parse causes    *)
(* exactly one publication, made in the same step and carrying the store   *)
(* as that event left it, whether or not the event changed the store; an   *)
(* event that fails to parse publishes nothing, nor does a block the       *)
(* parser raises for, whose event is never applied; a change of the store  *)
(* is always published in the step that makes it.                          *)
(***************************************************************************)
C8_OnePublicationPerAppliedEvent ==
    [][/\ npub' \in {npub, npub + 1}
       /\ music_data' # music_data
          => (npub' = npub + 1
              /\ lastpub' = [kind |-> "data", snap |-> SnapshotOf(music_data')])
       /\ \A w \in Workers :
             FlushStep(w)
             => IF \/ EventOf(w).exc # ""
                   \/ /\ FieldOf(EventOf(w).event_type) \in NumericFields
                      /\ Unparseable(EventOf(w).data)
                THEN npub' = npub
                ELSE /\ npub' = npub + 1
                     /\ lastpub' = [kind |-> "data", snap |-> SnapshotOf(music_data')]]_vars

\* two events have been applied and published, the second one of a type that
\* is not mapped
C8_Witness ==
    /\ npub = 2
    /\ lastpub.kind = "data"
    /\ last_block # <<>>
    /\ FieldOf(ParseEventData(Join(last_block)).event_type) = ""
    /\ music_data # MusicDataInit

(***************************************************************************)
(* C9.  duration >= 0 and progress >= 0 in every state of the store and    *)
(* in every published snapshot.                                            *)
(***************************************************************************)
NonNegative(v) == v.t = "num" /\ v.n >= 0

C9_SecondsNonNegative ==
    /\ NonNegative(music_data.duration)
    /\ NonNegative(music_data.progress)
    /\ NonNegative(lastpub.snap.duration)
    /\ NonNegative(lastpub.snap.progress)

(***************************************************************************)
(* C10.  As claimed: a block with no event: and no data: line parses to    *)
(* ("", "") and is skipped: no field changes, no snapshot is published.    *)
(***************************************************************************)
\* no line of the block is an event: or a data: line
Malformed(block) ==
    \A i \in 1..Len(block) :
        /\ ~StartsWith(Strip(block[i]), EVENT_PREFIX)
        /\ ~StartsWith(Strip(block[i]), DATA_PREFIX)

EmptyRecord == [event_type |-> <<>>, data |-> Str(<<>>), exc |-> ""]

C10_MalformedFrameSkipped ==
    [][\A w \in Workers :
          (FlushStep(w) /\ Malformed(event_buffer[w]))
          => /\ EventOf(w) = EmptyRecord
             /\ music_data' = music_data
             /\ npub' = npub]_vars

(***************************************************************************)
(* C10, amended.  Such a block parses to ("", "") and changes no field,    *)
(* but it is not skipped: one snapshot, carrying the unchanged store, is   *)
(* published for it.                                                       *)
(***************************************************************************)
C10_MalformedFrameRepublishes ==
    [][\A w \in Workers :
          (FlushStep(w) /\ Malformed(event_buffer[w]))
          => /\ EventOf(w) = EmptyRecord
             /\ music_data' = music_data
             /\ npub' = npub + 1
             /\ lastpub' = [kind |-> "data", snap |-> SnapshotOf(music_data)]]_vars

\* a block of one comment line has been parsed and applied after a name event
C10_Witness ==
    /\ last_block # <<>>
    /\ Malformed(last_block)
    /\ music_data.song_name = Str(<<"A">>)
    /\ npub = 2

(***************************************************************************)
(* C11.  As claimed: for every pair of texts t and d without a line break, *)
(* the parser applied to 'event:<t>\ndata:<d>' returns (t, d), or          *)
(* (t, the JSON-decoded d) when d is a JSON quoted string or object.       *)
(***************************************************************************)
C11_RoundTrip ==
    parse_called =>
        /\ parsed.exc = ""
        /\ parsed.event_type = t_in
        /\ parsed.data = IF JsonLoads(d_in).ok THEN JsonLoads(d_in).v ELSE Str(d_in)

(***************************************************************************)
(* C11, amended.  The parser returns the two texts with the white space    *)
(* around them removed: (trim t, trim d), or (trim t, the JSON-decoded     *)
(* trim d) when the trimmed d is a JSON quoted string or object; when      *)
(* json.loads raises ValueError for the trimmed d, an object with an       *)
(* integer literal too long to convert, that exception leaves the parser.  *)
(***************************************************************************)
C11_RoundTripTrimmed ==
    parse_called =>
        IF JsonLoads(Strip(d_in)).exc = "ValueError"
        THEN parsed.exc = "ValueError"
        ELSE /\ parsed.exc = ""
             /\ parsed.event_type = Strip(t_in)
             /\ parsed.data = IF JsonLoads(Strip(d_in)).ok
                              THEN JsonLoads(Strip(d_in)).v
                              ELSE Str(Strip(d_in))

\* a block whose type and payload are both padded with blanks, the payload a
\* JSON value, has been parsed
C11_Witness ==
    /\ parse_called
    /\ Strip(t_in) \notin {t_in, <<>>}
    /\ Strip(d_in) # d_in
    /\ JsonLoads(Strip(d_in)).ok

(***************************************************************************)
(* C12.  Snapshots are never torn: every dict emitted is the snapshot of   *)
(* the store as it was at that emission, and what update_content reads     *)
(* from its data argument, across its two reads, is field for field one    *)
(* of the dicts emitted, whatever _update_music_data has applied to the    *)
(* store in the meantime.                                                  *)
(***************************************************************************)
\* update_content of Plugin o has read every key of its argument
ReadAll(o) == view[o].lyrics # None

RECURSIVE PendingFor(_, _)
PendingFor(o, q) ==
    IF q = <<>> THEN <<>>
    ELSE IF Head(q).to = o THEN <<Head(q).data>> \o PendingFor(o, Tail(q))
    ELSE PendingFor(o, Tail(q))

C13_ObserverIsolation ==
    /\ ~crashed
    /\ observers = Plugins
    /\ \A o \in Plugins : received[o] \o PendingFor(o, queue) = emitted

\* a snapshot whose title is a dict made one slot raise and the other not; a
\* later snapshot was emitted, and both slots have been called with both
C13_Witness ==
    \E o1, o2 \in Plugins :
        /\ caught[o1] >= 1
        /\ caught[o2] = 0
        /\ Len(emitted) >= 2
        /\ emitted[1].title.t = "dict"
        /\ received[o1] = emitted
        /\ received[o2] = emitted
        /\ upc[o1] = "idle"
        /\ upc[o2] = "idle"

(***************************************************************************)
(* C14.  An invocation of start that stop() was called during, between its *)
(* connection attempt and the creation of its retry timer, never creates   *)
(* that timer: it leaves without scheduling a retry, wherever the call of  *)
(* stop() landed.                                                          *)
(***************************************************************************)
C14_StopPreventsRetry ==
    [][\A w \in stopSeen : pc[w] = "mk_timer" => pc'[w] = "mk_timer"]_vars

(***************************************************************************)
(* C15.  At most one invocation of start is connecting or in the read loop *)
(* at any time, and the store is written by that invocation only: a retry  *)
(* started by the timer never connects or reads while an earlier           *)
(* invocation still does.                                                  *)
(***************************************************************************)
\* the invocations connecting or in the read loop
Reading == {w \in Workers : pc[w] \in {"connect", "read", "check", "process"}}

C15_OneReaderOneWriter ==
    [][/\ Cardinality(Reading') <= 1
       /\ music_data' # music_data => \E w \in Reading : pc[w] = "process"]_vars

\* the retry started by the timer has published a snapshot from its read loop
\* while the invocation that scheduled it has not yet returned
C15_Witness ==
    /\ pc[1] = "finally"
    /\ pc[2] = "read"
    /\ lastpub.kind = "data"

(***************************************************************************)
(* C16.  Every transport failure, while connecting or while streaming, is  *)
(* followed by exactly one publication of the cleared snapshot: the        *)
(* failed invocation publishes it, with the sentinel values, as the first  *)
(* step of its handler, nothing else publishes one, and a retry timer is   *)
(* created only by an invocation that has published it and then found the  *)
(* client running.                                                         *)
(***************************************************************************)
\* the dict of the sentinel values
IsCleared(snap) ==
    /\ snap.lyrics = DEFAULT_LYRIC
    /\ snap.title = DEFAULT_TITLE
    /\ snap.artist = DEFAULT_ARTIST
    /\ snap.cover_url = Str(<<>>)
    /\ snap.duration = Num(0)
    /\ snap.progress = Num(0)

C16_OneClearedBeforeRetry ==
    [][/\ \A w \in Workers :
             /\ (pc[w] \in {"connect", "read"} /\ pc'[w] = "except")
                => (npub' = npub /\ timers' = timers)
             /\ (pc[w] = "except" /\ pc'[w] # "except")
                => /\ npub' = npub + 1
                   /\ lastpub'.kind = "cleared"
                   /\ IsCleared(lastpub'.snap)
                   /\ timers' = timers
                   /\ pc'[w] = "chk_timer"
             /\ pc'[w] = "chk_timer" => pc[w] \in {"except", "chk_timer"}
             /\ pc'[w] = "mk_timer" => pc[w] \in {"chk_timer", "mk_timer"}
       /\ (npub' # npub /\ lastpub'.kind = "cleared")
          => \E w \in Workers : pc[w] = "except" /\ pc'[w] = "chk_timer"
       /\ timers' > timers
          => \E w \in Workers : pc[w] = "mk_timer" /\ pc'[w] = "finally"]_vars

\* a failed invocation has published the cleared snapshot and then scheduled
\* its retry
C16_Witness ==
    /\ pc[1] = "finally"
    /\ timers = 1
    /\ npub = 1
    /\ lastpub.kind = "cleared"

(***************************************************************************)
(* C17.  As claimed: in the read loop a non-blank line is only appended to *)
(* the buffer; a blank line after at least one buffered line parses,       *)
(* applies and publishes exactly the buffered block and empties the        *)
(* buffer; a blank line with an empty buffer does nothing.                 *)
(***************************************************************************)
\* invocation w runs the body of its loop
ProcessStep(w) == pc[w] = "process" /\ pc'[w] # pc[w]

\* the step only appends the line read
Accumulates(w) ==
    /\ event_buffer'[w] = Append(event_buffer[w], line[w])
    /\ pc'[w] = "read"
    /\ UNCHANGED store

\* the step hands exactly the buffered block to the parser and its event to
\* _update_music_data
Flushes(w) ==
    /\ last_block' = event_buffer[w]
    /\ last_recv' = Record(last_recv, EventOf(w).event_type, EventOf(w).data, TRUE)

\* the step hands exactly the buffered block to the parser, and its event, if
\* the parser returns one, to _update_music_data
FlushesUnlessParserRaises(w) ==
    /\ last_block' = event_buffer[w]
    /\ last_recv' = IF EventOf(w).exc # "" THEN last_recv
                    ELSE Record(last_recv, EventOf(w).event_type, EventOf(w).data, TRUE)

C17_BlockFraming ==
    [][\A w \in Workers :
          ProcessStep(w) =>
             IF line[w] # <<>> THEN Accumulates(w)
             ELSE IF event_buffer[w] # <<>>
             THEN /\ Flushes(w)
                  /\ npub' = npub + 1
                  /\ event_buffer'[w] = <<>>
                  /\ pc'[w] = "read"
             ELSE pc'[w] = "read" /\ UNCHANGED <<store, event_buffer>>]_vars

(***************************************************************************)
(* C17, amended.  The same, except that the flush publishes no snapshot    *)
(* when json.loads or float() raised for the payload, and that the buffer  *)
(* is not emptied when the exception was one the parser or                 *)
(* _update_music_data does not catch (ValueError from json.loads,          *)
(* TypeError from float): the read loop ends there with the block still    *)
(* in the buffer.                                                          *)
(***************************************************************************)
\* the exception raised while invocation w parses and applies its block: the
\* one that leaves the parser, or else the one float() raises
FlushRaises(w) ==
    IF EventOf(w).exc # "" THEN "uncaught"
    ELSE IF FieldOf(EventOf(w).event_type) \in NumericFields /\ Truthy(EventOf(w).data)
    THEN PyFloat(EventOf(w).data).exc
    ELSE ""

C17_BlockFramingUnlessRaises ==
    [][\A w \in Workers :
          ProcessStep(w) =>
             IF line[w] # <<>> THEN Accumulates(w)
             ELSE IF event_buffer[w] # <<>>
             THEN /\ FlushesUnlessParserRaises(w)
                  /\ npub' = IF FlushRaises(w) = "" THEN npub + 1 ELSE npub
                  /\ IF FlushRaises(w) \in {"uncaught", "TypeError"}
                     THEN event_buffer'[w] = event_buffer[w] /\ pc'[w] = "finally"
                     ELSE event_buffer'[w] = <<>> /\ pc'[w] = "read"
             ELSE pc'[w] = "read" /\ UNCHANGED <<store, event_buffer>>]_vars

\* a block was flushed and published, and the first line of the next block is
\* in the buffer
C17_Witness ==
    /\ Len(last_block) = 2
    /\ npub = 1
    /\ Len(event_buffer[1]) = 1
    /\ event_buffer[1][1] # last_block[1]
    /\ pc[1] = "read"

(***************************************************************************)
(* C18.  The parser never raises, for any block: a payload whose first     *)
(* character is a quote or a brace comes back JSON-decoded when it         *)
(* decodes and as the raw trimmed text when it does not, and a payload     *)
(* that starts with any other character comes back as the raw trimmed      *)
(* text.                                                                   *)
(***************************************************************************)
C18_DecodeOrRawNeverRaises ==
    parse_called =>
        LET raw == Strip(d_in)
        IN /\ parsed.exc = ""
           /\ parsed.data = IF raw # <<>> /\ raw[1] \in {Quote, "{"} /\ JsonLoads(raw).ok
                            THEN JsonLoads(raw).v
                            ELSE Str(raw)

(***************************************************************************)
(* C19.  A transport failure leaves every field of the store as it was:    *)
(* neither the failure nor its handler writes music_data, the store stays  *)
(* as the handler found it for as long as the cleared snapshot is the last *)
(* publication, and the first snapshot published after it carries, in      *)
(* every field but the one of the event just applied, the values the store *)
(* held at the failure.                                                    *)
(***************************************************************************)
C19_FailureKeepsStore ==
    [][/\ \A w \in Workers :
             (pc'[w] # pc[w] /\ "except" \in {pc[w], pc'[w]}) => music_data' = music_data
       /\ lastpub'.kind = "cleared" => music_data' = at_failure'
       /\ \A w \in Workers :
             (FlushStep(w) /\ lastpub.kind = "cleared" /\ npub' > npub)
             => \A f \in Fields \ {FieldOf(EventOf(w).event_type)} :
                   lastpub'.snap[KeyOf(f)] = at_failure[f]]_vars

\* the connection failed while the store held the title A; the retry has
\* published the artist B in a snapshot that still carries the title A
C19_Witness ==
    /\ at_failure.song_name = Str(<<"A">>)
    /\ at_failure.artist = Str(<<>>)
    /\ lastpub.kind = "data"
    /\ lastpub.snap.title = Str(<<"A">>)
    /\ lastpub.snap.artist = Str(<<"B">>)
    /\ pc[2] = "read"

(***************************************************************************)
(* C20.  A load thread never sets on the cover label the image of a cover  *)
(* other than the one of the snapshot update_content processed last: once  *)
(* a snapshot with a new cover has been processed, the loads started for   *)
(* earlier covers no longer write their image.                             *)
(***************************************************************************)
\* thread k sets its image on the cover label of its Plugin
SetsImage(k) ==
    /\ At(k, "set_image")
    /\ loads'[k].pc = "done"
    /\ ui_ready[loads[k].owner]

C20_NoStaleCover ==
    [][\A k \in Threads :
          SetsImage(k) => loads[k].url = last_cover_url[loads[k].owner]]_vars

====
